---- MODULE Spec2Model ----
(***************************************************************************)
(* Model of the network-monitor daemon: the SpeedTestService main loop     *)
(* (interval scheduling, per-cycle retry with exponential backoff, circuit *)
(* breaker), its store calls and its shutdown handler.                     *)
(*                                                                         *)
(* The service is a single async function on a single-threaded event loop. *)
(* Code between two awaits on a timer or on the probe subprocess runs      *)
(* without interruption; signal handlers run only while the loop is        *)
(* suspended in sleep() or in executeSpeedTest().  The variable pc is the  *)
(* position of the loop; times are in milliseconds.                        *)
(***************************************************************************)
EXTENDS Integers, Sequences, FiniteSets, TLC

\* ------------------------------------------------------------------ bounds
\* Last clock value explored; a step that would move the clock past it is
\* not taken.
MaxTime == 60000

\* Date.now() when the service is constructed.
StartTime == 20000

\* maxRetries of the configurations used to tabulate the backoff delays.
MaxAttempt == 8

\* Deliveries of a termination signal explored once db.close() has been
\* called this often.
MaxCloses == 3

\* Largest consecutiveFailures of the states in which determineHealthStatus
\* is tabulated.
MaxFailures == 4

\* Time one run of the probe subprocess may take.
ExecDurations == {2500, 5000}

\* ------------------------------------------------------- program constants
\* sleep(5000): poll period while the circuit is open and upper limit of the
\* interval wait.
PollMs == 5000

\* circuitBreakerResetTime: number | null
Null == -1

\* cleanupOldResults: thirtyDaysAgo.setDate(getDate() - 30)
RetentionDays == 30

\* timestamp of a row written at time t of the day the service started
Stamp(t) == [day |-> 0, ms |-> t]

\* Rows left in the store by earlier runs: 31 days old, 29 days old, and
\* one that reaches the age of 30 days 25 s after the service has started.
StoredRows ==
  { [day |-> -31, ms |-> StartTime],
    [day |-> -30, ms |-> StartTime + 5 * PollMs],
    [day |-> -29, ms |-> StartTime] }

\* milliseconds in one day of the Date arithmetic of cleanupOldResults
MsPerDay == 24 * 60 * 60 * 1000

\* Listeners of SIGTERM (or SIGINT) registered by the entry point before
\* the service is initialised: none in index.ts, one in bin/monitor.ts.
EntryHandlers == {0, 1}

\* Configurations accepted by loadConfig (every number positive).
Configs ==
  { [testInterval |-> 7500, maxRetries |-> 2, backoffDelay |-> 2500,
     maxBackoffDelay |-> 7500, circuitBreakerThreshold |-> 2,
     circuitBreakerTimeout |-> 7500],
    [testInterval |-> 10000, maxRetries |-> 1, backoffDelay |-> 2500,
     maxBackoffDelay |-> 2500, circuitBreakerThreshold |-> 1,
     circuitBreakerTimeout |-> 5000],
    [testInterval |-> 5000, maxRetries |-> 3, backoffDelay |-> 5000,
     maxBackoffDelay |-> 2500, circuitBreakerThreshold |-> 3,
     circuitBreakerTimeout |-> 2500] }

\* Base delays and caps of the configurations used to tabulate the backoff
\* delays; 5000 and 300000 are the defaults of loadConfig.
BackoffBases == {100, 2500, 5000}
BackoffCaps == {2500, 7500, 300000}

BackoffConfigs ==
  { [testInterval |-> 1800000, maxRetries |-> MaxAttempt, backoffDelay |-> b,
     maxBackoffDelay |-> m, circuitBreakerThreshold |-> 5,
     circuitBreakerTimeout |-> 1800000] :
    b \in BackoffBases, m \in BackoffCaps }

VARIABLES
  config,                   \* ServiceConfig, fixed at construction
  isRunning,                \* state.isRunning
  lastTestTime,             \* state.lastTestTime
  consecutiveFailures,      \* state.consecutiveFailures
  isCircuitBroken,          \* state.isCircuitBroken
  circuitBreakerResetTime,  \* state.circuitBreakerResetTime (Null or ms)
  db,                       \* state.db: "null", "open" or "closed"
  now,                      \* Date.now()
  pc,                       \* position of the process
  retryCount,               \* runTest local
  success,                  \* runTest local
  sleepMs,                  \* argument of the sleep() in progress
  rows,                     \* timestamps (day, ms) of the stored rows
  health,                   \* value returned by getHealth() in the last step
  cycle,                    \* history of the current probe cycle
  track,                    \* history of the circuit breaker
  handlers,                 \* listeners of the signal that call shutdown()
  dbCloses,                 \* calls of db.close() so far
  inFlight,                 \* probe subprocesses spawned and not yet exited
  lastQuery,                \* first getHealth() answer since runTest returned
  arg,                      \* input of the function being tabulated
  ret                       \* value it has returned

vars == <<config, isRunning, lastTestTime, consecutiveFailures,
          isCircuitBroken, circuitBreakerResetTime, db, now, pc, retryCount,
          success, sleepMs, rows, health, cycle, track, handlers,
          dbCloses, inFlight, lastQuery, arg, ret>>

breaker == <<consecutiveFailures, isCircuitBroken, circuitBreakerResetTime>>

Min(a, b) == IF a <= b THEN a ELSE b

RECURSIVE Pow2(_)
Pow2(n) == IF n <= 0 THEN 1 ELSE 2 * Pow2(n - 1)

\* ------------------------------------------------------------- pure parts

\* variant of BackoffDelay: the exponent is the retry number
BackoffDelayExponentOff(c, n) ==
  Min(c.backoffDelay * Pow2(n), c.maxBackoffDelay)

\* runTest: Math.min(backoffDelay * Math.pow(2, retryCount - 1), maxBackoffDelay)
BackoffDelay(c, n) == Min(c.backoffDelay * Pow2(n - 1), c.maxBackoffDelay)

\* the retry loop going on after a stored result
RetryLoopCondIgnoresSuccess(c, r, ok) == r <= c.maxRetries

\* runTest: while (retryCount <= maxRetries && !success)
RetryLoopCond(c, r, ok) == r <= c.maxRetries /\ ~ok

\* variant of BackoffDue: strict comparison, the last retry is not preceded
\* by a sleep
BackoffDueStrict(c, r) == r < c.maxRetries

\* runTest, catch block: if (retryCount <= maxRetries) sleep before the retry
BackoffDue(c, r) == r <= c.maxRetries

\* variant of CircuitExpired: the clock is not compared
CircuitExpiredNoClock(resetTime, t) == resetTime # Null /\ resetTime # 0

\* start: circuitBreakerResetTime && Date.now() >= circuitBreakerResetTime
\* (null and 0 are falsy)
CircuitExpired(resetTime, t) ==
  resetTime # Null /\ resetTime # 0 /\ t >= resetTime

\* variant of ClearCircuit: the failure counter is kept
ClearCircuitKeepsCount(s) ==
  [s EXCEPT !.isCircuitBroken = FALSE, !.circuitBreakerResetTime = Null]

\* variant of ClearCircuit: the counter and the reset time are cleared, the
\* flag is not
ClearCircuitKeepsFlag(s) ==
  [s EXCEPT !.consecutiveFailures = 0, !.circuitBreakerResetTime = Null]

\* start: the three assignments that clear the circuit
ClearCircuit(s) ==
  [s EXCEPT !.isCircuitBroken = FALSE,
            !.consecutiveFailures = 0,
            !.circuitBreakerResetTime = Null]

\* start: timeSinceLastTest < testInterval
IntervalPending(c, last, t) == t - last < c.testInterval

\* the interval wait as one sleep of the whole remaining time
IntervalSleepWholeRemainder(c, last, t) == c.testInterval - (t - last)

\* start: Math.min(5000, testInterval - timeSinceLastTest)
IntervalSleep(c, last, t) == Min(PollMs, c.testInterval - (t - last))

\* variant of HandleError: the circuit opens without a reset time
HandleErrorNoResetTime(c, s, t) ==
  LET n == s.consecutiveFailures + 1 IN
  IF n >= c.circuitBreakerThreshold
    THEN [s EXCEPT !.consecutiveFailures = n, !.isCircuitBroken = TRUE]
    ELSE [s EXCEPT !.consecutiveFailures = n]

\* variant of HandleError: the circuit opens only above the threshold
HandleErrorAboveThreshold(c, s, t) ==
  LET n == s.consecutiveFailures + 1 IN
  IF n > c.circuitBreakerThreshold
    THEN [consecutiveFailures |-> n, isCircuitBroken |-> TRUE,
          circuitBreakerResetTime |-> t + c.circuitBreakerTimeout]
    ELSE [s EXCEPT !.consecutiveFailures = n]

\* handleError: count the failure, open the circuit at the threshold
HandleError(c, s, t) ==
  LET n == s.consecutiveFailures + 1 IN
  IF n >= c.circuitBreakerThreshold
    THEN [consecutiveFailures |-> n, isCircuitBroken |-> TRUE,
          circuitBreakerResetTime |-> t + c.circuitBreakerTimeout]
    ELSE [s EXCEPT !.consecutiveFailures = n]

\* the three circuit-breaker fields of ServiceState as one record
Breaker ==
  [consecutiveFailures |-> consecutiveFailures,
   isCircuitBroken |-> isCircuitBroken,
   circuitBreakerResetTime |-> circuitBreakerResetTime]

SetBreaker(s) ==
  /\ consecutiveFailures' = s.consecutiveFailures
  /\ isCircuitBroken' = s.isCircuitBroken
  /\ circuitBreakerResetTime' = s.circuitBreakerResetTime

\* history kept for one probe cycle: calls of executeSpeedTest, backoff
\* sleeps, runs of handleError inside runTest, successful executions,
\* inserts, consecutiveFailures at the start of the cycle, and calls of
\* cleanupOldResults after the cycle
NewCycle(cf) ==
  [execs |-> 0, sleeps |-> <<>>, handled |-> 0, okExecs |-> 0, inserts |-> 0,
   cf0 |-> cf, prunes |-> 0]

\* history of the breaker: failed cycles in a row since the last success or
\* clearing, the time handleError last set the reset time, whether the
\* circuit was cleared with no run of handleError since, and the calls of
\* executeSpeedTest since the last success or clearing
NoTrack ==
  [failedCycles |-> 0, openedAt |-> Null, cleared |-> FALSE, execs |-> 0]

\* the last step was not a call of getHealth()
NoHealth ==
  [status |-> "none", lastTestTime |-> 0, consecutiveFailures |-> 0,
   isCircuitBroken |-> FALSE, uptime |-> 0]

\* no function is being tabulated
NoArg == [fn |-> "none"]
NoRet == [fn |-> "none"]

\* no getHealth() answer is kept
NoQuery ==
  [status |-> "none", lastTestTime |-> 0, consecutiveFailures |-> 0,
   isCircuitBroken |-> FALSE, uptime |-> 0, reset |-> FALSE]

\* history of the health queries across a step of the loop: the answer
\* kept is dropped when runTest returns (a probe cycle has run), and marked
\* when the loop clears the circuit
KeepQuery ==
  lastQuery' =
    IF pc' = "cleanup" THEN NoQuery
    ELSE IF isCircuitBroken /\ ~isCircuitBroken' /\ lastQuery.status # "none"
      THEN [lastQuery EXCEPT !.reset = TRUE]
    ELSE lastQuery

\* ------------------------------------------------------------------- Init
\* constructor setting lastTestTime to the time of the construction
InitStampedNow ==
  /\ config \in Configs
  /\ isRunning = FALSE
  /\ lastTestTime = StartTime
  /\ consecutiveFailures = 0
  /\ isCircuitBroken = FALSE
  /\ circuitBreakerResetTime = Null
  /\ db = "null"
  /\ now = StartTime
  /\ pc = "boot"
  /\ retryCount = 0
  /\ success = FALSE
  /\ sleepMs = 0
  /\ rows = StoredRows
  /\ health = NoHealth
  /\ cycle = NewCycle(0)
  /\ track = NoTrack
  /\ handlers \in EntryHandlers
  /\ dbCloses = 0
  /\ inFlight = 0
  /\ lastQuery = NoQuery
  /\ arg = NoArg
  /\ ret = NoRet

\* constructor
Init ==
  /\ config \in Configs
  /\ isRunning = FALSE
  /\ lastTestTime = 0
  /\ consecutiveFailures = 0
  /\ isCircuitBroken = FALSE
  /\ circuitBreakerResetTime = Null
  /\ db = "null"
  /\ now = StartTime
  /\ pc = "boot"
  /\ retryCount = 0
  /\ success = FALSE
  /\ sleepMs = 0
  /\ rows = StoredRows
  /\ health = NoHealth
  /\ cycle = NewCycle(0)
  /\ track = NoTrack
  /\ handlers \in EntryHandlers
  /\ dbCloses = 0
  /\ inFlight = 0
  /\ lastQuery = NoQuery
  /\ arg = NoArg
  /\ ret = NoRet

\* ---------------------------------------------------------------- startup

\* main: loadConfig returns config and the service is constructed
LoadConfig ==
  /\ health' = NoHealth
  /\ pc = "boot"
  /\ pc' = "new"
  /\ UNCHANGED <<handlers, dbCloses, inFlight, lastQuery>>
  /\ UNCHANGED <<arg, ret>>
  /\ UNCHANGED <<config, isRunning, lastTestTime, breaker, db, now,
                 retryCount, success, sleepMs, rows, cycle, track>>

\* main: loadConfig throws (configSchema.parse rejects the environment) and
\* the entry point exits with status 1
LoadConfigFails ==
  /\ health' = NoHealth
  /\ pc = "boot"
  /\ pc' = "failed"
  /\ UNCHANGED <<handlers, dbCloses, inFlight, lastQuery>>
  /\ UNCHANGED <<arg, ret>>
  /\ UNCHANGED <<config, isRunning, lastTestTime, breaker, db, now,
                 retryCount, success, sleepMs, rows, cycle, track>>

\* initialize: open the store, set isRunning, register the signal handlers
Initialize ==
  /\ health' = NoHealth
  /\ pc = "new"
  /\ db' = "open"
  /\ isRunning' = TRUE
  /\ pc' = "ready"
  /\ handlers' = handlers + 1
  /\ UNCHANGED <<dbCloses, inFlight, lastQuery>>
  /\ UNCHANGED <<arg, ret>>
  /\ UNCHANGED <<config, lastTestTime, breaker, now, retryCount, success,
                 sleepMs, rows, cycle, track>>

\* initialize: initializeDatabase throws, the error is rethrown and main
\* exits with status 1
InitializeFails ==
  /\ health' = NoHealth
  /\ pc = "new"
  /\ pc' = "failed"
  /\ UNCHANGED <<handlers, dbCloses, inFlight, lastQuery>>
  /\ UNCHANGED <<arg, ret>>
  /\ UNCHANGED <<config, isRunning, lastTestTime, breaker, db, now,
                 retryCount, success, sleepMs, rows, cycle, track>>

\* start without its guard
StartUnguarded ==
  /\ health' = NoHealth
  /\ pc \in {"new", "ready"}
  /\ pc' = "loop"
  /\ UNCHANGED <<handlers, dbCloses, inFlight, lastQuery>>
  /\ UNCHANGED <<arg, ret>>
  /\ UNCHANGED <<config, isRunning, lastTestTime, breaker, db, now,
                 retryCount, success, sleepMs, rows, cycle, track>>

\* start: the guard before the main loop
Start ==
  /\ health' = NoHealth
  /\ pc \in {"new", "ready"}
  /\ pc' = IF ~isRunning \/ db = "null" THEN "failed" ELSE "loop"
  /\ UNCHANGED <<handlers, dbCloses, inFlight, lastQuery>>
  /\ UNCHANGED <<arg, ret>>
  /\ UNCHANGED <<config, isRunning, lastTestTime, breaker, db, now,
                 retryCount, success, sleepMs, rows, cycle, track>>

\* -------------------------------------------------------------- main loop

\* history: the failure handler has run at time t and left the breaker s
TrackHandled(trk, s, t, inCycle) ==
  [failedCycles |-> IF inCycle THEN trk.failedCycles + 1 ELSE trk.failedCycles,
   openedAt |-> IF s.isCircuitBroken THEN t ELSE trk.openedAt,
   cleared |-> FALSE,
   execs |-> trk.execs]

\* executeSpeedTest: Bun.spawn starts one more subprocess
Spawned(n) == n + 1

\* executeSpeedTest going on without awaiting proc.exited
ExitedNotAwaited(n) == n

\* executeSpeedTest: await proc.exited, the subprocess is gone when the
\* call goes on
Exited(n) == n - 1

\* runTest: head of the retry loop, reached with the locals r and ok, the
\* breaker fields s, the clock t and f subprocesses running; after the
\* loop, handleError if the cycle did not succeed
RunTestLoop(r, ok, s, cyc, trk, t, f) ==
  /\ retryCount' = r
  /\ success' = ok
  /\ inFlight' = IF RetryLoopCond(config, r, ok) THEN Spawned(f) ELSE f
  /\ IF RetryLoopCond(config, r, ok)
       THEN /\ pc' = "exec"
            /\ SetBreaker(s)
            /\ cycle' = [cyc EXCEPT !.execs = @ + 1]
            /\ track' = [trk EXCEPT !.execs = @ + 1]
       ELSE /\ pc' = "cleanup"
            /\ IF ~ok
                 THEN LET h == HandleError(config, s, t) IN
                      /\ SetBreaker(h)
                      /\ cycle' = [cyc EXCEPT !.handled = @ + 1]
                      /\ track' = TrackHandled(trk, h, t, TRUE)
                 ELSE /\ SetBreaker(s)
                      /\ cycle' = cyc
                      /\ track' = trk

\* start: one pass of the while loop up to its first await
LoopIteration ==
  /\ health' = NoHealth
  /\ pc = "loop"
  /\ UNCHANGED <<handlers, dbCloses>>
  /\ UNCHANGED <<arg, ret>>
  /\ UNCHANGED <<config, isRunning, lastTestTime, db, now, rows>>
  /\ IF ~isRunning
       THEN /\ pc' = "stopped"
            /\ UNCHANGED <<breaker, retryCount, success, sleepMs, cycle,
                           track, inFlight>>
       ELSE
         LET expired == isCircuitBroken
                          /\ CircuitExpired(circuitBreakerResetTime, now)
             s == IF expired THEN ClearCircuit(Breaker) ELSE Breaker
             trk == IF expired
                      THEN [failedCycles |-> 0, openedAt |-> Null,
                            cleared |-> TRUE, execs |-> 0]
                      ELSE track
         IN
         IF isCircuitBroken /\ ~expired
           THEN /\ pc' = "sleep_circuit"
                /\ sleepMs' = PollMs
                /\ UNCHANGED <<breaker, retryCount, success, cycle, track,
                               inFlight>>
           ELSE IF IntervalPending(config, lastTestTime, now)
             THEN /\ pc' = "sleep_interval"
                  /\ sleepMs' = IntervalSleep(config, lastTestTime, now)
                  /\ SetBreaker(s)
                  /\ track' = trk
                  /\ UNCHANGED <<retryCount, success, cycle, inFlight>>
             ELSE /\ sleepMs' = sleepMs
                  /\ IF db = "null"
                       THEN /\ pc' = "cleanup"
                            /\ SetBreaker(s)
                            /\ track' = trk
                            /\ UNCHANGED <<retryCount, success, cycle,
                                           inFlight>>
                       ELSE RunTestLoop(0, FALSE, s,
                                        NewCycle(s.consecutiveFailures),
                                        trk, now, inFlight)
  /\ KeepQuery

\* runTest: a backoff sleep ends and the retry loop goes on
RetryWakes ==
  /\ pc = "sleep_backoff"
  /\ health' = NoHealth
  /\ now' = now + sleepMs
  /\ RunTestLoop(retryCount, success, Breaker, cycle, track, now',
                 inFlight)
  /\ UNCHANGED <<handlers, dbCloses>>
  /\ UNCHANGED <<arg, ret>>
  /\ UNCHANGED <<config, isRunning, lastTestTime, db, sleepMs, rows>>
  /\ KeepQuery

\* sleep: the timer of a poll sleep fires
SleepDone ==
  /\ health' = NoHealth
  /\ pc \in {"sleep_circuit", "sleep_interval"}
  /\ now + sleepMs <= MaxTime
  /\ now' = now + sleepMs
  /\ pc' = "loop"
  /\ UNCHANGED <<handlers, dbCloses, inFlight, lastQuery>>
  /\ UNCHANGED <<arg, ret>>
  /\ UNCHANGED <<config, isRunning, lastTestTime, breaker, db, retryCount,
                 success, sleepMs, rows, cycle, track>>

\* runTest: the timer of a backoff sleep fires
BackoffDone ==
  /\ now + sleepMs <= MaxTime
  /\ RetryWakes

\* runTest calling handleError in the catch block of every attempt
RunTestCatchCountsAttempt(cyc, t) ==
  LET r == retryCount + 1
      h == HandleError(config, Breaker, t)
  IN
  IF BackoffDue(config, r)
    THEN /\ retryCount' = r
         /\ success' = success
         /\ sleepMs' = BackoffDelay(config, r)
         /\ pc' = "sleep_backoff"
         /\ cycle' = [cyc EXCEPT
                        !.sleeps = Append(@, BackoffDelay(config, r))]
         /\ inFlight' = Exited(inFlight)
         /\ SetBreaker(h)
         /\ track' = track
    ELSE /\ sleepMs' = sleepMs
         /\ RunTestLoop(r, success, h, cyc, track, t, Exited(inFlight))

\* runTest: the catch block of one attempt, entered at time t
RunTestCatch(cyc, t) ==
  LET r == retryCount + 1 IN
  IF BackoffDue(config, r)
    THEN /\ retryCount' = r
         /\ success' = success
         /\ sleepMs' = BackoffDelay(config, r)
         /\ pc' = "sleep_backoff"
         /\ cycle' = [cyc EXCEPT
                        !.sleeps = Append(@, BackoffDelay(config, r))]
         /\ inFlight' = Exited(inFlight)
         /\ UNCHANGED <<breaker, track>>
    ELSE /\ sleepMs' = sleepMs
         /\ RunTestLoop(r, success, Breaker, cyc, track, t, Exited(inFlight))

\* executeSpeedTest throws after d ms: non-zero exit code, empty output or
\* output that JSON.parse rejects
AttemptFails(d) ==
  /\ pc = "exec"
  /\ health' = NoHealth
  /\ now' = now + d
  /\ RunTestCatch(cycle, now')
  /\ UNCHANGED <<handlers, dbCloses>>
  /\ UNCHANGED <<arg, ret>>
  /\ UNCHANGED <<config, isRunning, lastTestTime, db, rows>>
  /\ KeepQuery

ExecFails(d) ==
  /\ now + d <= MaxTime
  /\ AttemptFails(d)

\* executeSpeedTest returns a result after d ms and storeResult inserts it
ExecSucceeds(d) ==
  /\ health' = NoHealth
  /\ pc = "exec"
  /\ now + d <= MaxTime
  /\ now' = now + d
  /\ rows' = rows \cup {Stamp(now')}
  /\ lastTestTime' = now'
  /\ sleepMs' = sleepMs
  /\ RunTestLoop(retryCount, TRUE,
                 [Breaker EXCEPT !.consecutiveFailures = 0],
                 [cycle EXCEPT !.okExecs = @ + 1, !.inserts = @ + 1],
                 [track EXCEPT !.failedCycles = 0, !.execs = 0], now',
                 Exited(inFlight))
  /\ UNCHANGED <<handlers, dbCloses>>
  /\ UNCHANGED <<arg, ret>>
  /\ UNCHANGED <<config, isRunning, db>>
  /\ KeepQuery

\* runTest setting lastTestTime before the call of storeResult, which throws
ExecSucceedsInsertFailsStamped(d) ==
  /\ health' = NoHealth
  /\ pc = "exec"
  /\ now + d <= MaxTime
  /\ now' = now + d
  /\ lastTestTime' = now'
  /\ RunTestCatch([cycle EXCEPT !.okExecs = @ + 1], now')
  /\ UNCHANGED <<handlers, dbCloses>>
  /\ UNCHANGED <<arg, ret>>
  /\ UNCHANGED <<config, isRunning, db, rows>>
  /\ KeepQuery

\* executeSpeedTest returns a result after d ms and storeResult throws: the
\* error is caught by the catch block of the attempt
ExecSucceedsInsertFails(d) ==
  /\ health' = NoHealth
  /\ pc = "exec"
  /\ now + d <= MaxTime
  /\ now' = now + d
  /\ RunTestCatch([cycle EXCEPT !.okExecs = @ + 1], now')
  /\ UNCHANGED <<handlers, dbCloses>>
  /\ UNCHANGED <<arg, ret>>
  /\ UNCHANGED <<config, isRunning, lastTestTime, db, rows>>
  /\ KeepQuery

\* executeSpeedTest: the probe subprocess never exits, so the promise
\* proc.exited, awaited without a timeout, never settles
ExecHangs ==
  /\ health' = NoHealth
  /\ pc = "exec"
  /\ pc' = "exec_hung"
  /\ UNCHANGED <<handlers, dbCloses, inFlight, lastQuery>>
  /\ UNCHANGED <<arg, ret>>
  /\ UNCHANGED <<config, isRunning, lastTestTime, breaker, db, now,
                 retryCount, success, sleepMs, rows, cycle, track>>

\* order of two ISO timestamps as strings: by date, then by time of day
Before(a, b) == a.day < b.day \/ (a.day = b.day /\ a.ms < b.ms)

\* cleanupOldResults: setDate(getDate() - 30) on the current time t
Cutoff(t) == [day |-> -RetentionDays, ms |-> t]

\* cleanupOldResults deleting the rows up to the cutoff, cutoff included
PrunedInclusive(rs, t) == { r \in rs : Before(Cutoff(t), r) }

\* cleanupOldResults: DELETE FROM speed_results WHERE timestamp < cutoff
Pruned(rs, t) == { r \in rs : ~Before(r, Cutoff(t)) }

\* start: cleanupOldResults after runTest has returned
Cleanup ==
  /\ health' = NoHealth
  /\ pc = "cleanup"
  /\ rows' = IF db # "null" THEN Pruned(rows, now) ELSE rows
  /\ cycle' = IF db # "null" THEN [cycle EXCEPT !.prunes = @ + 1] ELSE cycle
  /\ pc' = "loop"
  /\ UNCHANGED <<handlers, dbCloses, inFlight, lastQuery>>
  /\ UNCHANGED <<arg, ret>>
  /\ UNCHANGED <<config, isRunning, lastTestTime, breaker, db, now,
                 retryCount, success, sleepMs, track>>

\* start without the try/catch of the loop body: the error of
\* cleanupOldResults leaves start() and main exits with status 1
CleanupFailsUncaught ==
  /\ health' = NoHealth
  /\ pc = "cleanup"
  /\ db # "null"
  /\ pc' = "failed"
  /\ UNCHANGED <<handlers, dbCloses, inFlight, lastQuery>>
  /\ UNCHANGED <<arg, ret>>
  /\ UNCHANGED <<config, isRunning, lastTestTime, breaker, db, now,
                 retryCount, success, sleepMs, rows, cycle, track>>

\* start: cleanupOldResults throws; the catch of the loop body logs the
\* error and calls handleError
CleanupFails ==
  /\ health' = NoHealth
  /\ pc = "cleanup"
  /\ db # "null"
  /\ LET h == HandleError(config, Breaker, now) IN
       /\ SetBreaker(h)
       /\ track' = TrackHandled(track, h, now, FALSE)
  /\ cycle' = [cycle EXCEPT !.prunes = @ + 1]
  /\ pc' = "loop"
  /\ UNCHANGED <<handlers, dbCloses, inFlight, lastQuery>>
  /\ UNCHANGED <<arg, ret>>
  /\ UNCHANGED <<config, isRunning, lastTestTime, db, now, retryCount,
                 success, sleepMs, rows>>

\* ----------------------------------------------------- concurrent callers

\* the loop is suspended in sleep() or in executeSpeedTest()
Suspended ==
  pc \in {"sleep_circuit", "sleep_interval", "sleep_backoff", "exec",
          "exec_hung"}

\* determineHealthStatus testing the failure count before the circuit
DetermineHealthStatusFailuresFirst(running, broken, failures) ==
  IF ~running THEN "unhealthy"
  ELSE IF failures > 0 THEN "degraded"
  ELSE IF broken THEN "unhealthy"
  ELSE "healthy"

\* determineHealthStatus
DetermineHealthStatus(running, broken, failures) ==
  IF ~running THEN "unhealthy"
  ELSE IF broken THEN "unhealthy"
  ELSE IF failures > 0 THEN "degraded"
  ELSE "healthy"

\* getHealth that also zeroes the failure count it has reported
GetHealthClearsCount ==
  /\ Suspended
  /\ health' =
       [status |-> DetermineHealthStatus(isRunning, isCircuitBroken,
                                         consecutiveFailures),
        lastTestTime |-> lastTestTime,
        consecutiveFailures |-> consecutiveFailures,
        isCircuitBroken |-> isCircuitBroken,
        uptime |-> now - StartTime]
  /\ consecutiveFailures' = 0
  /\ UNCHANGED <<handlers, dbCloses, inFlight, lastQuery>>
  /\ UNCHANGED <<arg, ret>>
  /\ UNCHANGED <<config, isRunning, lastTestTime, isCircuitBroken,
                 circuitBreakerResetTime, db, now, pc, retryCount, success,
                 sleepMs, rows, cycle, track>>

\* getHealth
GetHealth ==
  /\ Suspended
  /\ health' =
       [status |-> DetermineHealthStatus(isRunning, isCircuitBroken,
                                         consecutiveFailures),
        lastTestTime |-> lastTestTime,
        consecutiveFailures |-> consecutiveFailures,
        isCircuitBroken |-> isCircuitBroken,
        uptime |-> now - StartTime]
  /\ lastQuery' =
       IF lastQuery.status = "none" \/ lastQuery.reset
         THEN [status |-> health'.status,
               lastTestTime |-> health'.lastTestTime,
               consecutiveFailures |-> health'.consecutiveFailures,
               isCircuitBroken |-> health'.isCircuitBroken,
               uptime |-> health'.uptime,
               reset |-> FALSE]
         ELSE lastQuery
  /\ UNCHANGED <<handlers, dbCloses, inFlight>>
  /\ UNCHANGED <<arg, ret>>
  /\ UNCHANGED <<config, isRunning, lastTestTime, breaker, db, now, pc,
                 retryCount, success, sleepMs, rows, cycle, track>>

\* shutdown without its last statement, process.exit(0)
ShutdownHandlerNoExit(s) ==
  [isRunning |-> FALSE,
   db |-> IF s.db = "null" THEN "null" ELSE "closed",
   dbCloses |-> IF s.db = "null" THEN s.dbCloses ELSE s.dbCloses + 1,
   exited |-> FALSE]

\* shutdown: one run on the process state s; closeDatabase calls db.close()
\* on the handle, which shutdown never sets back to null
ShutdownHandler(s) ==
  [isRunning |-> FALSE,
   db |-> IF s.db = "null" THEN "null" ELSE "closed",
   dbCloses |-> IF s.db = "null" THEN s.dbCloses ELSE s.dbCloses + 1,
   exited |-> TRUE]

\* process.emit: the n listeners of the signal run one after the other, as
\* long as the process has not exited
RECURSIVE RunListeners(_, _)
RunListeners(n, s) ==
  IF n = 0 \/ s.exited THEN s ELSE RunListeners(n - 1, ShutdownHandler(s))

\* SIGTERM or SIGINT is delivered while the loop is suspended
Shutdown ==
  /\ health' = NoHealth
  /\ Suspended
  /\ dbCloses < MaxCloses
  /\ LET s == RunListeners(handlers,
                           [isRunning |-> isRunning, db |-> db,
                            dbCloses |-> dbCloses, exited |-> FALSE])
     IN /\ isRunning' = s.isRunning
        /\ db' = s.db
        /\ dbCloses' = s.dbCloses
        /\ pc' = IF s.exited THEN "exited" ELSE pc
  /\ UNCHANGED <<handlers, inFlight, lastQuery>>
  /\ UNCHANGED <<arg, ret>>
  /\ UNCHANGED <<config, lastTestTime, breaker, now, retryCount, success,
                 sleepMs, rows, cycle, track>>

Next ==
  \/ LoadConfig
  \/ LoadConfigFails
  \/ Initialize
  \/ InitializeFails
  \/ Start
  \/ LoopIteration
  \/ SleepDone
  \/ BackoffDone
  \/ \E d \in ExecDurations : ExecFails(d)
  \/ \E d \in ExecDurations : ExecSucceeds(d)
  \/ \E d \in ExecDurations : ExecSucceedsInsertFails(d)
  \/ ExecHangs
  \/ Cleanup
  \/ CleanupFails
  \/ GetHealth
  \/ Shutdown

Spec == Init /\ [][Next]_vars

\* ------------------------------------------- backoff delays of one cycle
\* One probe cycle in which every attempt fails, for the configurations of
\* BackoffConfigs: the first attempt is in flight.
BackoffInit ==
  /\ config \in BackoffConfigs
  /\ isRunning = TRUE
  /\ lastTestTime = 0
  /\ consecutiveFailures = 0
  /\ isCircuitBroken = FALSE
  /\ circuitBreakerResetTime = Null
  /\ db = "open"
  /\ now = StartTime
  /\ pc = "exec"
  /\ retryCount = 0
  /\ success = FALSE
  /\ sleepMs = 0
  /\ rows = {}
  /\ health = NoHealth
  /\ cycle = [NewCycle(0) EXCEPT !.execs = 1]
  /\ track = NoTrack
  /\ handlers = 1
  /\ dbCloses = 0
  /\ inFlight = 1
  /\ lastQuery = NoQuery
  /\ arg = NoArg
  /\ ret = NoRet

BackoffNext ==
  \/ \E d \in ExecDurations : AttemptFails(d)
  \/ RetryWakes

BackoffSpec == BackoffInit /\ [][BackoffNext]_vars

\* ------------------------------------------------ health of every state
\* getHealth() called on a service in any combination of isRunning,
\* isCircuitBroken, consecutiveFailures, reset time and lastTestTime, while
\* its loop is suspended.
HealthInit ==
  /\ config \in Configs
  /\ isRunning \in BOOLEAN
  /\ lastTestTime \in {0, StartTime}
  /\ consecutiveFailures \in 0..MaxFailures
  /\ isCircuitBroken \in BOOLEAN
  /\ circuitBreakerResetTime \in {Null, StartTime + PollMs}
  /\ db = "open"
  /\ now = StartTime
  /\ pc = "sleep_interval"
  /\ retryCount = 0
  /\ success = FALSE
  /\ sleepMs = PollMs
  /\ rows = {}
  /\ health = NoHealth
  /\ cycle = NewCycle(0)
  /\ track = NoTrack
  /\ handlers = 1
  /\ dbCloses = 0
  /\ inFlight = 0
  /\ lastQuery = NoQuery
  /\ arg = NoArg
  /\ ret = NoRet

HealthNext == GetHealth

HealthSpec == HealthInit /\ [][HealthNext]_vars

\* ------------------------------------------------- configuration loading
\* The numeric settings read from the environment.
Settings ==
  {"testInterval", "maxRetries", "backoffDelay", "maxBackoffDelay",
   "circuitBreakerThreshold", "circuitBreakerTimeout"}

\* Values of an environment variable: not set, or one of these strings.
RawValues == {"unset", "", "0", "-5", "abc", "3", "7500", "7xyz", "1e3"}

\* a JavaScript number: NaN or an integer
NaN == [nan |-> TRUE, val |-> 0]
Num(v) == [nan |-> FALSE, val |-> v]

\* the number a string denotes as a decimal numeral, NaN when it is none
Denotes(raw) ==
  CASE raw = "0" -> Num(0)
    [] raw = "-5" -> Num(-5)
    [] raw = "3" -> Num(3)
    [] raw = "7500" -> Num(7500)
    [] raw = "1e3" -> Num(1000)
    [] OTHER -> NaN

\* z.coerce.number(): Number(raw), which reads the empty string as 0
NumberOf(raw) == IF raw = "" THEN Num(0) ELSE Denotes(raw)

\* parseInt(raw, 10): the longest prefix that is an integer numeral
ParseInt(raw) ==
  CASE raw = "7xyz" -> Num(7)
    [] raw = "1e3" -> Num(1)
    [] OTHER -> Denotes(raw)

\* defaults of the configuration
Defaults ==
  [testInterval |-> 1800000, maxRetries |-> 3, backoffDelay |-> 5000,
   maxBackoffDelay |-> 300000, circuitBreakerThreshold |-> 5,
   circuitBreakerTimeout |-> 1800000]

\* z.coerce.number().positive().default(d) on one variable
SchemaField(raw, d) ==
  IF raw = "unset" THEN [ok |-> TRUE, value |-> Num(d)]
  ELSE [ok |-> ~NumberOf(raw).nan /\ NumberOf(raw).val > 0,
        value |-> NumberOf(raw)]

\* loadConfig of apps/network-monitor: configSchema.parse throws when a
\* field is rejected
LoadConfigSchema(env) ==
  [fn |-> "loadConfig", loader |-> "schema",
   ok |-> \A k \in Settings : SchemaField(env[k], Defaults[k]).ok,
   config |-> [k \in Settings |-> SchemaField(env[k], Defaults[k]).value]]

\* loadConfig of the service started by index.ts:
\* parseInt(process.env.X ?? "<default>", 10) for every setting, never throws
LoadConfigLegacy(env) ==
  [fn |-> "loadConfig", loader |-> "legacy",
   ok |-> TRUE,
   config |-> [k \in Settings |->
                 IF env[k] = "unset" THEN Num(Defaults[k])
                 ELSE ParseInt(env[k])]]

\* Environments with at most two of the settings provided.
Envs ==
  { [k \in Settings |-> IF k = a THEN x ELSE IF k = b THEN y ELSE "unset"] :
      a \in Settings, b \in Settings, x \in RawValues, y \in RawValues }

ConfigInit ==
  /\ config \in Configs
  /\ isRunning = FALSE
  /\ lastTestTime = 0
  /\ consecutiveFailures = 0
  /\ isCircuitBroken = FALSE
  /\ circuitBreakerResetTime = Null
  /\ db = "null"
  /\ now = StartTime
  /\ pc = "boot"
  /\ retryCount = 0
  /\ success = FALSE
  /\ sleepMs = 0
  /\ rows = {}
  /\ health = NoHealth
  /\ cycle = NewCycle(0)
  /\ track = NoTrack
  /\ handlers = 0
  /\ dbCloses = 0
  /\ inFlight = 0
  /\ lastQuery = NoQuery
  /\ arg \in Envs
  /\ ret = NoRet

\* a function is applied to the input: nothing but ret changes
PureFrame ==
  UNCHANGED <<config, isRunning, lastTestTime, breaker, db, now, pc,
              retryCount, success, sleepMs, rows, health, cycle, track,
              handlers, dbCloses, inFlight, lastQuery, arg>>

\* bin/monitor.ts: the constructor calls loadConfig
CallLoadConfigSchema ==
  /\ ret' = LoadConfigSchema(arg)
  /\ PureFrame

\* index.ts: main calls loadConfig
CallLoadConfigLegacy ==
  /\ ret' = LoadConfigLegacy(arg)
  /\ PureFrame

ConfigNext ==
  \/ CallLoadConfigSchema
  \/ CallLoadConfigLegacy

ConfigSpec == ConfigInit /\ [][ConfigNext]_vars

\* ---------------------------------------------------- connection quality
\* The service at rest, for the tabulation of a function of the service.
ServiceIdle ==
  /\ config \in Configs
  /\ isRunning = FALSE
  /\ lastTestTime = 0
  /\ consecutiveFailures = 0
  /\ isCircuitBroken = FALSE
  /\ circuitBreakerResetTime = Null
  /\ db = "null"
  /\ now = StartTime
  /\ pc = "boot"
  /\ retryCount = 0
  /\ success = FALSE
  /\ sleepMs = 0
  /\ rows = {}
  /\ health = NoHealth
  /\ cycle = NewCycle(0)
  /\ track = NoTrack
  /\ handlers = 0
  /\ dbCloses = 0
  /\ inFlight = 0
  /\ lastQuery = NoQuery

\* Latencies and jitters in ms around the thresholds of the tiers.
Pings == {0, 19, 20, 21, 49, 50, 51, 99, 100, 101}
Jitters == {0, 4, 5, 6, 14, 15, 16, 29, 30, 31}

\* Packet losses in tenths of a percent (1 is 0.1 %, 25 is 2.5 %), around the
\* thresholds of the tiers.
Losses == {0, 1, 2, 9, 10, 11, 24, 25, 26}

\* determineConnectionQuality with the jitter test of the first tier
\* reversed
DetermineConnectionQualityJitterReversed(ping, jitter, packetLoss) ==
  IF ping < 20 /\ jitter > 5 /\ packetLoss < 1 THEN "excellent"
  ELSE IF ping < 50 /\ jitter < 15 /\ packetLoss < 10 THEN "good"
  ELSE IF ping < 100 /\ jitter < 30 /\ packetLoss < 25 THEN "fair"
  ELSE "poor"

\* determineConnectionQuality with inclusive bounds
DetermineConnectionQualityInclusive(ping, jitter, packetLoss) ==
  IF ping <= 20 /\ jitter <= 5 /\ packetLoss <= 1 THEN "excellent"
  ELSE IF ping <= 50 /\ jitter <= 15 /\ packetLoss <= 10 THEN "good"
  ELSE IF ping <= 100 /\ jitter <= 30 /\ packetLoss <= 25 THEN "fair"
  ELSE "poor"

\* determineConnectionQuality, packetLoss in tenths of a percent
DetermineConnectionQuality(ping, jitter, packetLoss) ==
  IF ping < 20 /\ jitter < 5 /\ packetLoss < 1 THEN "excellent"
  ELSE IF ping < 50 /\ jitter < 15 /\ packetLoss < 10 THEN "good"
  ELSE IF ping < 100 /\ jitter < 30 /\ packetLoss < 25 THEN "fair"
  ELSE "poor"

QualityInit ==
  /\ ServiceIdle
  /\ arg \in [fn : {"determineConnectionQuality"}, ping : Pings,
              jitter : Jitters, packetLoss : Losses]
  /\ ret = NoRet

\* executeSpeedTest calls determineConnectionQuality
CallDetermineConnectionQuality ==
  /\ ret' = [fn |-> "determineConnectionQuality",
             value |-> DetermineConnectionQuality(arg.ping, arg.jitter,
                                                  arg.packetLoss)]
  /\ PureFrame

QualityNext == CallDetermineConnectionQuality

QualitySpec == QualityInit /\ [][QualityNext]_vars

\* --------------------------------------------------- network type detection
\* An interface name is a sequence of characters. The names on a host: the
\* loopback, wireless, wired and mobile interfaces of Linux, two names in
\* capitals as Windows gives them, and a name holding two of the keywords.
Lo == <<"l", "o">>
Wlan0 == <<"w", "l", "a", "n", "0">>
Eth0 == <<"e", "t", "h", "0">>
Enp3s0 == <<"e", "n", "p", "3", "s", "0">>
Wwan0 == <<"w", "w", "a", "n", "0">>
WiFi == <<"W", "I", "F", "I">>
Wi_Fi == <<"W", "i", "-", "F", "i">>
Cellular == <<"C", "e", "l", "l", "u", "l", "a", "r">>
WwanEth == <<"w", "w", "a", "n", "e", "t", "h">>

InterfaceNames ==
  {Lo, Wlan0, Eth0, Enp3s0, Wwan0, WiFi, Wi_Fi, Cellular, WwanEth}

\* the longest list of interfaces enumerated
MaxInterfaces == 3

\* The keys of the object networkInterfaces() returns, in the order of
\* Object.entries: up to MaxInterfaces distinct names. Every key of that
\* object holds its array of addresses, so no entry is skipped for having
\* none.
InterfaceLists ==
  UNION { { s \in [1..n -> InterfaceNames] :
              \A i, j \in 1..n : s[i] = s[j] => i = j } :
          n \in 0..MaxInterfaces }

Capitals == <<"C", "F", "I", "W">>
Smalls == <<"c", "f", "i", "w">>

\* String.prototype.toLowerCase comparing the name as it is written
ToLowerCaseOff(name) == name

\* String.prototype.toLowerCase on the characters of the names
ToLowerCase(name) ==
  [i \in 1..Len(name) |->
     IF \E k \in 1..Len(Capitals) : Capitals[k] = name[i]
     THEN Smalls[CHOOSE k \in 1..Len(Capitals) : Capitals[k] = name[i]]
     ELSE name[i]]

\* String.prototype.includes
Includes(name, word) ==
  \E i \in 1..(Len(name) - Len(word) + 1) :
     SubSeq(name, i, i + Len(word) - 1) = word

\* the keywords of the three types
KwWlan == <<"w", "l", "a", "n">>
KwWifi == <<"w", "i", "f", "i">>
KwEth == <<"e", "t", "h">>
KwEnp == <<"e", "n", "p">>
KwWwan == <<"w", "w", "a", "n">>
KwCellular == <<"c", "e", "l", "l", "u", "l", "a", "r">>

\* the body of the loop of detectNetworkType for one name: the type it
\* returns, "none" when it goes on to the next name
TypeOfName(name) ==
  IF Includes(ToLowerCase(name), KwWlan) \/ Includes(ToLowerCase(name), KwWifi)
  THEN "wifi"
  ELSE IF Includes(ToLowerCase(name), KwEth)
            \/ Includes(ToLowerCase(name), KwEnp)
  THEN "ethernet"
  ELSE IF Includes(ToLowerCase(name), KwWwan)
            \/ Includes(ToLowerCase(name), KwCellular)
  THEN "cellular"
  ELSE "none"

\* detectNetworkType: the type of the first name that has one
RECURSIVE DetectNetworkType(_)
DetectNetworkType(names) ==
  IF names = <<>> THEN "unknown"
  ELSE IF TypeOfName(Head(names)) # "none" THEN TypeOfName(Head(names))
  ELSE DetectNetworkType(Tail(names))

NetworkInit ==
  /\ ServiceIdle
  /\ arg \in [fn : {"detectNetworkType"}, names : InterfaceLists]
  /\ ret = NoRet

\* executeSpeedTest calls detectNetworkType
CallDetectNetworkType ==
  /\ ret' = [fn |-> "detectNetworkType", value |-> DetectNetworkType(arg.names)]
  /\ PureFrame

NetworkNext == CallDetectNetworkType

NetworkSpec == NetworkInit /\ [][NetworkNext]_vars

\* ------------------------------------------------- reading the probe output
\* The values of JavaScript that JSON.parse and the property reads of
\* executeSpeedTest produce. An object is a function from its own keys.
Undefined == [k |-> "undefined"]
JNull == [k |-> "null"]
JNum(n) == [k |-> "number", v |-> n]
JStr(s) == [k |-> "string", v |-> s]
JObj(f) == [k |-> "object", f |-> f]

\* x is null or undefined
Nullish(x) == x.k \in {"undefined", "null"}

\* x.key for x other than null and undefined: an own property of an object,
\* undefined for a key the value does not have
Get(x, key) ==
  IF x.k = "object" /\ key \in DOMAIN x.f THEN x.f[key] ELSE Undefined

\* x?.key
OptGet(x, key) == IF Nullish(x) THEN Undefined ELSE Get(x, key)

\* x ?? d
Coalesce(x, d) == IF Nullish(x) THEN d ELSE x

\* the truth value of x in a condition
Truthy(x) ==
  CASE x.k \in {"undefined", "null"} -> FALSE
    [] x.k = "number" -> x.v # 0
    [] x.k = "string" -> x.v # ""
    [] OTHER -> TRUE

\* an error thrown by executeSpeedTest
Thrown(e) == [ok |-> FALSE, error |-> e]

\* x?.toString(): undefined for null and undefined; an object with an own
\* property named toString has a value there that cannot be called
OptToString(x) ==
  CASE Nullish(x) -> Undefined
    [] x.k = "number" -> JStr(ToString(x.v))
    [] x.k = "string" -> x
    [] x.k = "object" /\ "toString" \in DOMAIN x.f -> Thrown("TypeError")
    [] OTHER -> JStr("[object Object]")

\* data.download?.bandwidth && (bandwidth * 8) / 1e6
MbpsNoDefault(bandwidth) ==
  IF Truthy(bandwidth) THEN JNum((bandwidth.v * 8) \div 1000000)
  ELSE bandwidth

\* data.download?.bandwidth ? (bandwidth * 8) / 1e6 : 0
Mbps(bandwidth) ==
  IF Truthy(bandwidth) THEN JNum((bandwidth.v * 8) \div 1000000) ELSE JNum(0)

\* The members of the output of the probe, present or not (Undefined stands
\* for a key the object does not have). Bandwidths are in bytes per second,
\* packet loss in tenths of a percent.
PingMembers ==
  { Undefined, JNull, JObj([latency |-> JNum(12)]),
    JObj([latency |-> JNum(20), jitter |-> JNum(5)]) }
DownloadMembers ==
  { Undefined, JObj([bandwidth |-> JNum(0)]),
    JObj([bandwidth |-> JNum(12500000)]) }
UploadMembers == { Undefined, JObj([bandwidth |-> JNum(2500000)]) }
InterfaceMembers ==
  { Undefined, JObj([x \in {} |-> Undefined]),
    JObj([name |-> JStr("eth0"), externalIp |-> JStr("203.0.113.7")]) }
ServerMembers ==
  { Undefined, JObj([name |-> JStr("Lisbon")]),
    JObj([id |-> JNum(4242), name |-> JStr("Lisbon"), country |-> JStr("PT")]),
    JObj([id |-> JObj([toString |-> JNum(1)])]) }
IspMembers == { Undefined, JStr("ISP") }
PacketLossMembers == { Undefined, JNum(0), JNum(10) }

\* the object with the members that are present
ObjectOf(members) ==
  JObj([key \in { m \in DOMAIN members : members[m] # Undefined }
          |-> members[key]])

\* The standard output of the probe: nothing, a text that is not JSON, or
\* the text of a JSON value (null, a number or an object).
Outputs ==
  { [kind |-> "empty"], [kind |-> "text"] }
  \cup { [kind |-> "json", data |-> d] :
           d \in {JNull, JNum(7)}
                 \cup { ObjectOf(m) :
                          m \in [ping : PingMembers,
                                 download : DownloadMembers,
                                 upload : UploadMembers,
                                 interface : InterfaceMembers,
                                 server : ServerMembers,
                                 isp : IspMembers,
                                 packetLoss : PacketLossMembers] } }

\* the exit codes of the probe
ExitCodes == {0, 1}

\* executeSpeedTest from the exit of the subprocess on. The timestamp, the
\* network type and the device name of the result come from the host and
\* not from the output; the two parts of server_location are kept apart.
ExecuteSpeedTest(exitCode, output) ==
  IF exitCode # 0 THEN Thrown("exit")
  ELSE IF output.kind = "empty" THEN Thrown("empty")
  ELSE IF output.kind = "text" THEN Thrown("SyntaxError")
  ELSE IF Nullish(output.data) THEN Thrown("TypeError")
  ELSE
    LET data == output.data
        ping == Coalesce(OptGet(Get(data, "ping"), "latency"), JNum(0))
        jitter == Coalesce(OptGet(Get(data, "ping"), "jitter"), JNum(0))
        loss == Coalesce(Get(data, "packetLoss"), JNum(0))
        id == OptToString(OptGet(Get(data, "server"), "id"))
    IN IF id = Thrown("TypeError") THEN id
       ELSE
         [ok |-> TRUE,
          ping |-> ping,
          download |-> Mbps(OptGet(Get(data, "download"), "bandwidth")),
          upload |-> Mbps(OptGet(Get(data, "upload"), "bandwidth")),
          network_ssid |->
            Coalesce(OptGet(Get(data, "interface"), "name"), JNull),
          ip_address |->
            Coalesce(OptGet(Get(data, "interface"), "externalIp"),
                     JStr("unknown")),
          server_id |-> Coalesce(id, JStr("unknown")),
          server_location |->
            << Coalesce(OptGet(Get(data, "server"), "name"), JStr("unknown")),
               Coalesce(OptGet(Get(data, "server"), "country"),
                        JStr("unknown")) >>,
          isp |-> Coalesce(Get(data, "isp"), JStr("unknown")),
          latency_jitter |-> jitter,
          packet_loss |-> loss,
          connection_quality |->
            DetermineConnectionQuality(ping.v, jitter.v, loss.v)]

OutputInit ==
  /\ ServiceIdle
  /\ arg \in [fn : {"executeSpeedTest"}, exitCode : ExitCodes,
              output : Outputs]
  /\ ret = NoRet

\* runTest calls executeSpeedTest and the subprocess exits
CallExecuteSpeedTest ==
  /\ ret' = [fn |-> "executeSpeedTest",
             value |-> ExecuteSpeedTest(arg.exitCode, arg.output)]
  /\ PureFrame

OutputNext == CallExecuteSpeedTest

OutputSpec == OutputInit /\ [][OutputNext]_vars

\* ------------------------------------------------------ management server
\* The token made by crypto.randomUUID() when the server starts.
AUTH_TOKEN == "f3b1c2d4"

\* The addresses of the peers of a connection: the host itself, over IPv4 and
\* over IPv6, and another machine. The server listens on env.host, by
\* default every address of the host.
Peers == {"127.0.0.1", "::1", "192.0.2.77"}
LocalPeers == {"127.0.0.1", "::1"}

\* The host names of the URL of a request, as URL.hostname gives them: they
\* are those of the Host header the client sent. An IPv6 address is given in
\* brackets.
Hostnames == {"localhost", "127.0.0.1", "[::1]", "192.0.2.10"}

\* The Authorization header of a request as the words between its single
\* spaces; <<>> is a request with no such header.
AuthHeaders ==
  { <<>>, <<"Bearer">>, <<"Bearer", AUTH_TOKEN>>, <<"Bearer", "0000">>,
    <<"Basic", AUTH_TOKEN>>, <<"Bearer", "", AUTH_TOKEN>>,
    <<"Bearer", AUTH_TOKEN, "junk">> }

\* the routes of the services plugin
Routes == {"status", "start", "stop", "restart", "logs", "config"}

Requests ==
  [peer : Peers, hostname : Hostnames, authorization : AuthHeaders,
   route : Routes]

\* What the commands of a handler do: all succeed, the systemctl command of
\* the action exits with a code other than 0, the "show" that follows does,
\* or the insert into service_logs throws.
Outcomes == {"ok", "actionFails", "showFails", "insertFails"}

\* the ActiveState that "systemctl show" reports
ActiveStates == {"active", "inactive"}

\* the most requests handled in a run
MaxRequests == 2

\* isLocalhost
IsLocalhost(remoteAddress) ==
  remoteAddress = "127.0.0.1" \/ remoteAddress = "::1"
    \/ remoteAddress = "localhost"

\* authenticate: the status of the error it throws, 0 when it returns. The
\* header starts with "Bearer " when its first word is Bearer and a space
\* follows; split(" ")[1] is its second word.
Authenticate(request) ==
  IF ~IsLocalhost(request.hostname) THEN 403
  ELSE IF ~(Len(request.authorization) >= 2
              /\ request.authorization[1] = "Bearer") THEN 401
  ELSE IF request.authorization[2] # AUTH_TOKEN THEN 401
  ELSE 0

\* a handler that writes its row whether or not its commands have succeeded
HandlerLogsFailures(route, outcome, state) ==
  CASE route = "status" ->
         LET fails == outcome \in {"actionFails", "showFails"} IN
         [runs |-> <<"show">>, logged |-> FALSE,
          outcome |-> IF fails THEN "showFails" ELSE "ok",
          activeState |-> IF fails THEN "none" ELSE state,
          status |-> IF fails THEN 400 ELSE 200]
    [] route \in {"start", "stop", "restart"} ->
         [runs |-> IF outcome = "actionFails" THEN <<route>>
                   ELSE <<route, "show">>,
          logged |-> outcome # "insertFails",
          outcome |-> outcome,
          activeState |-> IF outcome \in {"ok", "insertFails"} THEN state
                          ELSE "none",
          status |-> CASE outcome = "ok" -> 200
                       [] outcome = "insertFails" -> 500
                       [] OTHER -> 400]
    [] OTHER -> [runs |-> <<>>, logged |-> FALSE, outcome |-> "none",
                 activeState |-> "none", status |-> 200]

\* The handler of a route: the systemctl commands it runs, whether it
\* inserts a row into service_logs, what its commands did, the ActiveState
\* it has read, and the status of its response (400 is the ValidationError
\* of a systemctl command that fails, 500 the answer to any other error).
\* The status route runs the one command "show".
Handler(route, outcome, state) ==
  CASE route = "status" ->
         LET fails == outcome \in {"actionFails", "showFails"} IN
         [runs |-> <<"show">>, logged |-> FALSE,
          outcome |-> IF fails THEN "showFails" ELSE "ok",
          activeState |-> IF fails THEN "none" ELSE state,
          status |-> IF fails THEN 400 ELSE 200]
    [] route \in {"start", "stop", "restart"} ->
         [runs |-> IF outcome = "actionFails" THEN <<route>>
                   ELSE <<route, "show">>,
          logged |-> outcome = "ok",
          outcome |-> outcome,
          activeState |-> IF outcome \in {"ok", "insertFails"} THEN state
                          ELSE "none",
          status |-> CASE outcome = "ok" -> 200
                       [] outcome = "insertFails" -> 500
                       [] OTHER -> 400]
    [] OTHER -> [runs |-> <<>>, logged |-> FALSE, outcome |-> "none",
                 activeState |-> "none", status |-> 200]

\* no request has been handled: the requests handled, the status of the
\* last response, the systemctl commands run, the rows of service_logs, and
\* what the commands of the last request did
NoResponse ==
  [fn |-> "request", n |-> 0, status |-> 0, runs |-> <<>>, logs |-> <<>>,
   outcome |-> "none", activeState |-> "none"]

ApiInit ==
  /\ ServiceIdle
  /\ config.maxRetries = 1
  /\ arg = NoArg
  /\ ret = NoResponse

\* The server handles a request: the derive hook of localAuth runs
\* authenticate, whose error the error handler turns into the response;
\* otherwise the handler of the route runs.
HandleRequest(request, outcome, state) ==
  /\ ret.n < MaxRequests
  /\ arg' = request
  /\ LET denied == Authenticate(request)
         h == Handler(request.route, outcome, state)
     IN ret' = IF denied # 0
               THEN [ret EXCEPT !.n = @ + 1, !.status = denied,
                                !.outcome = "none", !.activeState = "none"]
               ELSE [ret EXCEPT !.n = @ + 1, !.status = h.status,
                                !.runs = @ \o h.runs,
                                !.logs =
                                  IF h.logged
                                    THEN Append(@, [action |-> request.route,
                                                    status |-> h.activeState])
                                    ELSE @,
                                !.outcome = h.outcome,
                                !.activeState = h.activeState]
  /\ UNCHANGED <<config, isRunning, lastTestTime, breaker, db, now, pc,
                 retryCount, success, sleepMs, rows, health, cycle, track,
                 handlers, dbCloses, inFlight, lastQuery>>

ApiNext ==
  \E request \in Requests, outcome \in Outcomes, state \in ActiveStates :
     HandleRequest(request, outcome, state)

ApiSpec == ApiInit /\ [][ApiNext]_vars

\* ================================================================== claims

\* the step is a run of handleError
HandlerStep ==
  \/ CleanupFails
  \/ /\ pc \in {"exec", "sleep_backoff"}
     /\ pc' = "cleanup"
     /\ ~success'

\* C1: once circuitBreakerThreshold probe cycles in a row have failed (no
\* success and no clearing in between) the circuit is open, and an open
\* circuit is closed only by a main-loop iteration that runs with
\* now >= circuitBreakerResetTime.
C1_OpenAtThresholdUntilReset ==
  /\ [](track.failedCycles >= config.circuitBreakerThreshold
          => isCircuitBroken)
  /\ [][isCircuitBroken /\ ~isCircuitBroken'
          => /\ LoopIteration
             /\ circuitBreakerResetTime # Null
             /\ now >= circuitBreakerResetTime]_vars

\* the threshold (above 1) was reached by failed cycles and an iteration of
\* the loop has found the circuit open
C1_Witness ==
  /\ config.circuitBreakerThreshold > 1
  /\ track.failedCycles = config.circuitBreakerThreshold
  /\ isCircuitBroken
  /\ pc = "sleep_circuit"

\* C2: executeSpeedTest is never called or in flight while the circuit is
\* open; an iteration that finds the circuit open before the reset time
\* only sleeps, for at most 5 s, and the loop re-checks after the sleep.
C2_NoProbeWhileOpen ==
  /\ [](pc \in {"exec", "exec_hung", "sleep_backoff"} => ~isCircuitBroken)
  /\ [][(pc = "loop" /\ isRunning /\ isCircuitBroken
           /\ ~(now >= circuitBreakerResetTime))
          => /\ pc' = "sleep_circuit"
             /\ sleepMs' <= PollMs
             /\ sleepMs' > 0
             /\ cycle' = cycle
             /\ UNCHANGED <<breaker, lastTestTime, rows, now>>]_vars
  /\ [][pc = "sleep_circuit" /\ pc' # pc
          => pc' \in {"loop", "exited"}]_vars

\* an iteration found the circuit open before its reset time and sleeps
C2_Witness ==
  /\ pc = "sleep_circuit"
  /\ isCircuitBroken
  /\ now < circuitBreakerResetTime
  /\ sleepMs = PollMs

\* C3: when runTest returns from a cycle in which every executeSpeedTest
\* failed, it has called executeSpeedTest maxRetries + 1 times, slept
\* maxRetries times (before each retry, not after the last attempt), the
\* cycle is not a success, and handleError has run once, so that
\* consecutiveFailures is one more than at the start of the cycle.
C3_ExhaustedCycle ==
  /\ (pc = "cleanup" /\ cycle.okExecs = 0)
       => /\ cycle.execs = config.maxRetries + 1
          /\ Len(cycle.sleeps) = config.maxRetries
          /\ ~success
          /\ cycle.handled = 1
          /\ consecutiveFailures = cycle.cf0 + 1
  /\ (pc = "exec" /\ cycle.okExecs = 0)
       => /\ Len(cycle.sleeps) = cycle.execs - 1
          /\ cycle.handled = 0
  /\ (pc = "sleep_backoff" /\ cycle.okExecs = 0)
       => /\ Len(cycle.sleeps) = cycle.execs
          /\ cycle.execs <= config.maxRetries
          /\ cycle.handled = 0

\* maxRetries = 2: three failed executions, two sleeps, runTest has returned
C3_Witness ==
  /\ pc = "cleanup"
  /\ config.maxRetries = 2
  /\ cycle.okExecs = 0
  /\ cycle.execs = 3
  /\ Len(cycle.sleeps) = 2
  /\ consecutiveFailures = cycle.cf0 + 1

\* the step is the return of an executeSpeedTest that produced a result
ExecOkStep == pc = "exec" /\ cycle'.okExecs = cycle.okExecs + 1

\* C4: a successful executeSpeedTest, on whatever attempt, is followed in
\* the same step by the insert of its result, lastTestTime = now and
\* consecutiveFailures = 0; runTest then returns without a further attempt
\* and without running handleError.
C4_SuccessEndsCycle ==
  [][ExecOkStep
      => /\ rows' = rows \cup {Stamp(now')}
         /\ cycle'.inserts = cycle.inserts + 1
         /\ lastTestTime' = now'
         /\ consecutiveFailures' = 0
         /\ success'
         /\ pc' = "cleanup"
         /\ cycle'.handled = 0]_vars

\* C5 (as stated): an open circuit has a reset time that is set and later
\* than the current time.
C5_ResetTimeInFuture ==
  isCircuitBroken
    => circuitBreakerResetTime # Null /\ circuitBreakerResetTime > now

\* C5 (amended): an open circuit has a reset time that is set and equals
\* the time at which handleError last opened it plus circuitBreakerTimeout,
\* an instant later than that opening time (which is not after the current
\* time).
C5_ResetTimeSetWhenOpen ==
  isCircuitBroken
    => /\ circuitBreakerResetTime # Null
       /\ track.openedAt # Null
       /\ track.openedAt <= now
       /\ circuitBreakerResetTime > track.openedAt
       /\ circuitBreakerResetTime
            = track.openedAt + config.circuitBreakerTimeout

\* the circuit is open and its reset time has been reached, before the
\* loop has looked at it
C5_Witness ==
  /\ isCircuitBroken
  /\ circuitBreakerResetTime # Null
  /\ now >= circuitBreakerResetTime
  /\ pc = "loop"

\* C6: the step that clears the circuit sets isCircuitBroken = FALSE,
\* consecutiveFailures = 0 and circuitBreakerResetTime = null together;
\* from then until the next run of handleError the circuit is closed,
\* consecutiveFailures is 0 and the reset time is null.
C6_ClearIsAtomic ==
  /\ [][isCircuitBroken /\ ~isCircuitBroken'
          => consecutiveFailures' = 0 /\ circuitBreakerResetTime' = Null]_vars
  /\ [](track.cleared
          => /\ ~isCircuitBroken
             /\ consecutiveFailures = 0
             /\ circuitBreakerResetTime = Null)

\* the circuit was cleared at a positive failure count and a new attempt is
\* in flight, with no failure since
C6_Witness ==
  /\ track.cleared
  /\ ~isCircuitBroken
  /\ pc = "exec"
  /\ cycle.cf0 = 0
  /\ config.circuitBreakerThreshold > 1

\* C7: the circuit opens only in a run of handleError, at the step where
\* consecutiveFailures reaches circuitBreakerThreshold; it closes only in
\* the circuit check of the main loop, with now >= circuitBreakerResetTime;
\* a success, a health query, a shutdown and a prune leave it unchanged.
C7_OnlyHandlerOpensOnlyLoopCloses ==
  /\ [][~isCircuitBroken /\ isCircuitBroken'
          => /\ HandlerStep
             /\ consecutiveFailures < config.circuitBreakerThreshold
             /\ consecutiveFailures' = config.circuitBreakerThreshold]_vars
  /\ [][isCircuitBroken /\ ~isCircuitBroken'
          => /\ LoopIteration
             /\ circuitBreakerResetTime # Null
             /\ now >= circuitBreakerResetTime]_vars
  /\ [][((\E d \in ExecDurations : ExecSucceeds(d))
            \/ GetHealth \/ Shutdown \/ Cleanup \/ SleepDone
            \/ Initialize \/ InitializeFails \/ Start)
          => isCircuitBroken' = isCircuitBroken]_vars

\* the circuit was opened by handleError, later closed by the loop, and
\* a successful cycle, a prune and a health query have followed
C7_Witness ==
  /\ track.cleared
  /\ ~isCircuitBroken
  /\ Stamp(lastTestTime) \in rows
  /\ lastTestTime = now
  /\ pc = "sleep_interval"
  /\ health.status = "healthy"

\* C8: the loop iteration that closes the circuit goes on to call
\* executeSpeedTest instead of sleeping.
C8_ClearThenProbe ==
  [][isCircuitBroken /\ ~isCircuitBroken' => pc' = "exec"]_vars

\* delays of the default configuration (backoffDelay 5000, maxBackoffDelay
\* 300000), by retry number
DefaultDelays ==
  <<5000, 10000, 20000, 40000, 80000, 160000, 300000, 300000, 300000,
    300000, 300000>>

C10_StoreErrorsLeaveBreaker ==
  [][(CleanupFails \/ \E d \in ExecDurations : ExecSucceedsInsertFails(d))
      => UNCHANGED breaker]_vars

\* the step is an error inside a loop iteration: a cycle that has used up
\* its retries, or an error thrown by storeResult or cleanupOldResults
IterationErrorStep ==
  \/ HandlerStep
  \/ \E d \in ExecDurations : ExecSucceedsInsertFails(d)

\* C11: an error inside a loop iteration (exhausted probe cycle, insert or
\* prune error) leaves isRunning true and the loop at a position from which
\* it goes on; the process ends only by shutdown() (exit 0) or by a failure
\* of initialize()/start() before the loop (exit 1); while isRunning is true
\* the loop never leaves through its while condition.
C11_ErrorsKeepLoopAlive ==
  /\ [][IterationErrorStep
          => /\ isRunning'
             /\ pc' \in {"loop", "cleanup", "sleep_backoff"}]_vars
  /\ [][pc' = "exited" /\ pc # "exited" => Shutdown]_vars
  /\ [][pc' = "failed" /\ pc # "failed" => pc \in {"boot", "new", "ready"}]_vars
  /\ [](pc = "stopped" => ~isRunning)
  /\ [](pc = "loop" => isRunning /\ ENABLED LoopIteration)
  /\ [](pc = "cleanup" => isRunning /\ ENABLED Cleanup)

\* a prune error and an exhausted cycle have been counted, and the loop has
\* started a further probe cycle
C11_Witness ==
  /\ isRunning
  /\ pc = "exec"
  /\ cycle.execs = 1
  /\ cycle.cf0 = 2
  /\ track.failedCycles = 1

\* the step is a return of executeSpeedTest, with a result or an error
ExecReturns ==
  \E d \in ExecDurations :
    ExecFails(d) \/ ExecSucceeds(d) \/ ExecSucceedsInsertFails(d)

\* C12: a call of executeSpeedTest always returns after a bounded wait: in
\* every state in which a call is in flight, the subprocess hung or not, a
\* step that returns from the call (a result or a Timeout/ExecutionFailed
\* error) can be taken, so the loop is never blocked in one attempt.  Stated
\* for the states from which the longest probe still ends by MaxTime.
C12_ExecuteReturns ==
  (pc \in {"exec", "exec_hung"} /\ \A d \in ExecDurations : now + d <= MaxTime)
    => ENABLED ExecReturns

\* the step is a shutdown request that sets isRunning to false
ShutdownStep == isRunning /\ ~isRunning'

\* positions of the loop inside a probe cycle
InCycle == pc \in {"exec", "exec_hung", "sleep_backoff"}

C14_StoreClosedOnce ==
  /\ dbCloses <= 1
  /\ (db = "closed") = (dbCloses = 1)
  /\ db = "closed" => ~isRunning
  /\ pc \in {"exited", "stopped"} => db = "closed" /\ dbCloses = 1

\* the signal had two listeners (entry point and initialize) and the
\* process has exited
C14_Witness ==
  /\ handlers = 2
  /\ pc = "exited"
  /\ db = "closed"
  /\ dbCloses = 1

C16_OneProbeAtATime ==
  /\ [](inFlight <= 1)
  /\ [](pc \in {"exec", "exec_hung"} => inFlight = 1)
  /\ [](pc \in {"loop", "cleanup", "sleep_backoff", "sleep_interval",
                 "sleep_circuit"} => inFlight = 0)
  /\ [][pc' = "exec" /\ pc # "exec"
          => /\ pc \in {"loop", "sleep_backoff"}
             /\ inFlight = 0
             /\ inFlight' = 1]_vars
  /\ [][cycle'.execs = 1 /\ cycle.execs # 1 => pc = "loop"]_vars
  /\ [][GetHealth \/ Shutdown
          => /\ inFlight' = inFlight
             /\ cycle' = cycle
             /\ pc' \in {pc, "exited"}]_vars

\* the second attempt of a cycle is in flight, alone, and a health query
\* has just been answered
C16_Witness ==
  /\ pc = "exec"
  /\ inFlight = 1
  /\ cycle.execs = 2
  /\ health.status # "none"

\* C17: an iteration that finds the circuit closed and less than
\* testInterval elapsed since lastTestTime starts no probe: it sleeps
\* min(5000, testInterval - elapsed), more than 0 and at most 5000 ms, and
\* the loop re-checks after the sleep; so a probe cycle begins only when at
\* least testInterval has passed since the last successful probe.
C17_IntervalGate ==
  /\ [][(pc = "loop" /\ isRunning /\ ~isCircuitBroken
           /\ now - lastTestTime < config.testInterval)
          => /\ pc' = "sleep_interval"
             /\ sleepMs'
                  = Min(PollMs, config.testInterval - (now - lastTestTime))
             /\ sleepMs' > 0
             /\ sleepMs' <= PollMs
             /\ cycle' = cycle
             /\ inFlight' = inFlight
             /\ UNCHANGED <<breaker, lastTestTime, rows, now>>]_vars
  /\ [][pc = "sleep_interval" /\ pc' # pc
          => pc' \in {"loop", "exited"}]_vars
  /\ [][pc = "loop" /\ pc' = "exec"
          => now - lastTestTime >= config.testInterval]_vars
  /\ [](pc = "sleep_interval" => sleepMs > 0 /\ sleepMs <= PollMs)

\* testInterval 7500: after a successful probe the loop has slept 5000 ms
\* and now sleeps the remaining 2500 ms
C17_Witness ==
  /\ pc = "sleep_interval"
  /\ ~isCircuitBroken
  /\ lastTestTime > 0
  /\ now - lastTestTime = PollMs
  /\ sleepMs = config.testInterval - PollMs
  /\ sleepMs < PollMs

\* C18: the status returned by getHealth() is determined by isRunning,
\* isCircuitBroken and consecutiveFailures alone: unhealthy when isRunning
\* is false or the circuit is open, whatever consecutiveFailures is;
\* degraded when running with a closed circuit and consecutiveFailures > 0;
\* healthy otherwise.
C18_StatusOfState ==
  health.status # "none"
    => /\ (~isRunning \/ isCircuitBroken) => health.status = "unhealthy"
       /\ (isRunning /\ ~isCircuitBroken /\ consecutiveFailures > 0)
            => health.status = "degraded"
       /\ (isRunning /\ ~isCircuitBroken /\ consecutiveFailures = 0)
            => health.status = "healthy"
       /\ health.status \in {"unhealthy", "degraded", "healthy"}

\* a running service with an open circuit and a positive failure count has
\* answered unhealthy
C18_Witness ==
  /\ isRunning
  /\ isCircuitBroken
  /\ consecutiveFailures > 0
  /\ health.status = "unhealthy"

\* the answer of the query of this step and the answer kept agree on
\* everything but uptime
SameAnswer ==
  /\ health'.status = lastQuery.status
  /\ health'.lastTestTime = lastQuery.lastTestTime
  /\ health'.consecutiveFailures = lastQuery.consecutiveFailures
  /\ health'.isCircuitBroken = lastQuery.isCircuitBroken

\* C19 (as stated): a health query returns the status, lastTestTime,
\* consecutiveFailures and isCircuitBroken of every earlier query since
\* which no probe cycle has run (runTest has not returned).
C19_SameUntilNextCycle ==
  [][GetHealth /\ lastQuery.status # "none" => SameAnswer]_vars

\* C19 (amended): a health query returns the status, lastTestTime,
\* consecutiveFailures and isCircuitBroken of every earlier query since
\* which no probe cycle has run and the loop has not cleared the circuit;
\* the uptime is that of the earlier query or later.
C19_SameUntilCycleOrReset ==
  [][GetHealth /\ lastQuery.status # "none" /\ ~lastQuery.reset
      => SameAnswer /\ health'.uptime >= lastQuery.uptime]_vars

\* two queries with poll sleeps but no probe cycle and no clearing in
\* between: same answer, later uptime
C19_Witness ==
  /\ health.status # "none"
  /\ lastQuery.status = health.status
  /\ ~lastQuery.reset
  /\ lastQuery.consecutiveFailures = health.consecutiveFailures
  /\ lastQuery.uptime < health.uptime
  /\ pc \in {"sleep_interval", "sleep_circuit"}

\* C20: a health query changes none of isRunning, lastTestTime,
\* consecutiveFailures, isCircuitBroken and circuitBreakerResetTime (nor the
\* store, the clock or the position of the loop), and it returns one of the
\* three statuses wherever the loop is suspended: in a probe, a backoff
\* sleep, a poll sleep of an open circuit or of the interval.
C20_QueryIsReadOnly ==
  /\ [][GetHealth
          => /\ UNCHANGED <<isRunning, lastTestTime, consecutiveFailures,
                            isCircuitBroken, circuitBreakerResetTime>>
             /\ UNCHANGED <<db, rows, now, pc, retryCount, success, sleepMs,
                            inFlight, dbCloses, cycle>>
             /\ health'.status \in {"healthy", "degraded", "unhealthy"}]_vars
  /\ [](Suspended => ENABLED GetHealth)
  /\ [](health.status # "none"
          => /\ health.lastTestTime = lastTestTime
             /\ health.consecutiveFailures = consecutiveFailures
             /\ health.isCircuitBroken = isCircuitBroken)

\* a query answered during a backoff sleep, after an earlier failed cycle
C20_Witness ==
  /\ pc = "sleep_backoff"
  /\ health.status = "degraded"
  /\ consecutiveFailures > 0
  /\ retryCount >= 1

\* positions of the main loop and of what it calls
InLoop ==
  pc \in {"loop", "cleanup", "exec", "exec_hung", "sleep_backoff",
          "sleep_interval", "sleep_circuit", "stopped"}

\* C21: when loadConfig or initializeDatabase throws, the process exits
\* with status 1 (pc = "failed") without having entered the loop or started
\* an executeSpeedTest; start() on a service that initialize() has not set
\* up fails as well; the loop runs only on an initialised service.
C21_StartupFailureExits ==
  /\ [][LoadConfigFails \/ InitializeFails => pc' = "failed"]_vars
  /\ [][(pc \in {"boot", "new"} /\ pc' \notin {"boot", "new"})
          => (pc' \in {"ready", "failed"})]_vars
  /\ [][pc = "failed" => UNCHANGED vars]_vars
  /\ [](pc = "failed"
          => /\ cycle.execs = 0
             /\ inFlight = 0
             /\ rows = StoredRows
             /\ ~isRunning
             /\ db = "null")
  /\ [](InLoop => db # "null" /\ handlers >= 1)

\* a startup failure under the bin/monitor.ts entry point, which has one
\* listener of its own: the process has exited before any probe
C21_Witness ==
  /\ pc = "failed"
  /\ db = "null"
  /\ ~isRunning
  /\ cycle.execs = 0
  /\ handlers = 1

\* the setting is provided and is zero, negative or not a number
InvalidSetting(raw) ==
  /\ raw # "unset"
  /\ Denotes(raw).nan \/ Denotes(raw).val <= 0

\* C22: loadConfig fails for every environment in which a numeric setting
\* is zero, negative or not a number; a setting that is not provided gets
\* its documented default (1800000, 3, 5000, 300000, 5, 1800000); so every
\* configuration that is loaded has only positive numbers.
C22_InvalidSettingsRejected ==
  ret.fn = "loadConfig"
    => /\ (\E k \in Settings : InvalidSetting(arg[k])) => ~ret.ok
       /\ ret.ok
            => \A k \in Settings :
                 /\ arg[k] = "unset" => ret.config[k] = Num(Defaults[k])
                 /\ ~ret.config[k].nan
                 /\ ret.config[k].val > 0
       /\ Defaults
            = [testInterval |-> 1800000, maxRetries |-> 3,
               backoffDelay |-> 5000, maxBackoffDelay |-> 300000,
               circuitBreakerThreshold |-> 5,
               circuitBreakerTimeout |-> 1800000]

\* the row is more than 30 days old at time t of the current day
OlderThanRetention(r, t) ==
  r.day < -RetentionDays \/ (r.day = -RetentionDays /\ r.ms < t)

\* C23: runTest, whether the cycle succeeded or failed, is followed by one
\* call of cleanupOldResults before the loop goes on, so that one call lies
\* between a cycle and the next (the store handle is present throughout
\* the loop); the call removes the rows more than 30 days old and no other.
C23_PruneAfterEveryCycle ==
  /\ [][(pc \in {"exec", "sleep_backoff"}
           /\ pc' \notin {"exec", "exec_hung", "sleep_backoff", "exited"})
          => pc' = "cleanup"]_vars
  /\ [](pc = "cleanup" => cycle.prunes = 0 /\ db # "null")
  /\ [][(pc = "cleanup" /\ pc' # pc)
          => pc' = "loop" /\ cycle'.prunes = 1]_vars
  /\ [][(pc = "loop" /\ pc' = "exec" /\ cycle.execs >= 1)
          => cycle.prunes = 1]_vars
  /\ [][Cleanup
          => rows' = { r \in rows : ~OlderThanRetention(r, now) }]_vars
  /\ [](\A r \in rows : r.ms >= 0 /\ r.ms < MsPerDay)
  /\ [](now < MsPerDay)

\* after a failed cycle the prune has removed the row that had just become
\* older than 30 days, with the 31 days old one, and kept the others
C23_Witness ==
  /\ pc = "loop"
  /\ cycle.okExecs = 0
  /\ cycle.handled = 1
  /\ cycle.prunes = 1
  /\ \A r \in StoredRows : r \in rows <=> r.day = -29
  /\ \E r \in rows : r.day = 0
  /\ now > StartTime + 5 * PollMs

\* C24: storeResult inserts a row only in the step in which an
\* executeSpeedTest has returned a result, and the row carries the time of
\* that step; a cycle that ends as a success has inserted exactly one row, a
\* cycle without a successful execution none; a stored row is never
\* changed, and rows leave the store only in cleanupOldResults.
C24_InsertOnlyOnSuccess ==
  /\ [][cycle'.inserts > cycle.inserts
          => /\ ExecOkStep
             /\ cycle'.inserts = cycle.inserts + 1
             /\ rows' = rows \cup {Stamp(now')}
             /\ Stamp(now') \notin rows]_vars
  /\ [][rows' # rows
          => \/ Cleanup /\ rows' \subseteq rows
             \/ ExecOkStep /\ rows' = rows \cup {Stamp(now')}]_vars
  /\ [](cycle.inserts <= 1)
  /\ [](pc = "cleanup" /\ success => cycle.inserts = 1)
  /\ [](cycle.okExecs = 0 => cycle.inserts = 0)
  /\ [](cycle.inserts = 1 => success)

\* the second attempt of a cycle has returned a result, which was stored
C24_Witness ==
  /\ pc = "cleanup"
  /\ success
  /\ cycle.execs = 2
  /\ cycle.inserts = 1
  /\ Stamp(now) \in rows

\* C25: lastTestTime changes only in the step in which a result has been
\* returned and stored, where it becomes the time of that step, later than
\* its old value; a failed attempt, a run of handleError, the opening and
\* the clearing of the circuit, a health query and a shutdown leave it as
\* it is.
C25_LastTestTimeOnlyOnSuccess ==
  /\ [][lastTestTime' # lastTestTime
          => /\ ExecOkStep
             /\ cycle'.inserts = cycle.inserts + 1
             /\ success'
             /\ lastTestTime' = now'
             /\ lastTestTime' > lastTestTime]_vars
  /\ [][((\E d \in ExecDurations : ExecFails(d))
            \/ HandlerStep
            \/ isCircuitBroken' # isCircuitBroken
            \/ GetHealth \/ Shutdown \/ SleepDone \/ BackoffDone)
          => lastTestTime' = lastTestTime]_vars
  /\ [](lastTestTime <= now)
  /\ [](lastTestTime = 0 \/ Stamp(lastTestTime) \in rows)

\* after a success, a failed cycle has opened the circuit and a health query
\* has been answered: lastTestTime is still the time of the success
C25_Witness ==
  /\ isCircuitBroken
  /\ lastTestTime > StartTime
  /\ lastTestTime < now
  /\ Stamp(lastTestTime) \in rows
  /\ health # NoHealth
  /\ health.lastTestTime = lastTestTime

\* the call of determineConnectionQuality has returned
QualityReturned == ret # NoRet /\ ret.fn = "determineConnectionQuality"

\* C27: the quality is excellent exactly when ping < 20, jitter < 5 and
\* loss < 0.1; good exactly when it is not excellent and ping < 50,
\* jitter < 15 and loss < 1; fair exactly when it is neither and ping < 100,
\* jitter < 30 and loss < 2.5; poor in every other case. A value equal to a
\* bound of a tier keeps the measurement out of that tier.
C27_QualityTiers ==
  QualityReturned =>
    LET p == arg.ping
        j == arg.jitter
        l == arg.packetLoss
        q == ret.value
        excellent == p < 20 /\ j < 5 /\ l < 1
        good == p < 50 /\ j < 15 /\ l < 10
        fair == p < 100 /\ j < 30 /\ l < 25
    IN /\ (q = "excellent") = excellent
       /\ (q = "good") = (~excellent /\ good)
       /\ (q = "fair") = (~excellent /\ ~good /\ fair)
       /\ (q = "poor") = (~excellent /\ ~good /\ ~fair)
       /\ (p = 20 \/ j = 5 \/ l = 1) => q # "excellent"
       /\ (p = 50 \/ j = 15 \/ l = 10) => q \notin {"excellent", "good"}
       /\ (p = 100 \/ j = 30 \/ l = 25) => q = "poor"

\* a ping of exactly 20 ms with no jitter and no loss has been rated good
C27_Witness ==
  /\ QualityReturned
  /\ arg.ping = 20
  /\ arg.jitter = 0
  /\ arg.packetLoss = 0
  /\ ret.value = "good"

\* the call of detectNetworkType has returned
NetworkReturned == ret # NoRet /\ ret.fn = "detectNetworkType"

\* the lists that hold the names of s in another order
Reorderings(s) ==
  { [i \in 1..Len(s) |-> s[f[i]]] :
      f \in { g \in [1..Len(s) -> 1..Len(s)] :
                \A i, j \in 1..Len(s) : g[i] = g[j] => i = j } }

\* C28: the type detected for a list of interface names is the type
\* detected for every permutation of the list.
C28_OrderIndependent ==
  NetworkReturned =>
    \A p \in Reorderings(arg.names) : DetectNetworkType(p) = ret.value

\* the types whose keywords a name holds when its letters are read without
\* regard to case
KeywordTypes(name) ==
  CASE name \in {Wlan0, WiFi} -> {"wifi"}
    [] name \in {Eth0, Enp3s0} -> {"ethernet"}
    [] name \in {Wwan0, Cellular} -> {"cellular"}
    [] name = WwanEth -> {"ethernet", "cellular"}
    [] OTHER -> {}

\* the position of the first name of s that holds a keyword, 0 if none does
FirstHit(s) ==
  IF \A i \in 1..Len(s) : KeywordTypes(s[i]) = {} THEN 0
  ELSE CHOOSE i \in 1..Len(s) :
         /\ KeywordTypes(s[i]) # {}
         /\ \A k \in 1..(i - 1) : KeywordTypes(s[k]) = {}

\* C29 as stated: names holding no keyword are skipped and the first name
\* holding one gives wifi if it holds "wlan" or "wifi", ethernet if it holds
\* "eth" or "enp", cellular if it holds "wwan" or "cellular", whatever the
\* case of its letters; a list with no such name gives unknown.
C29_KeywordGivesType ==
  NetworkReturned =>
    IF FirstHit(arg.names) = 0 THEN ret.value = "unknown"
    ELSE \A t \in KeywordTypes(arg.names[FirstHit(arg.names)]) : ret.value = t

\* C29, amended: the keywords are tried in the order wifi, ethernet,
\* cellular, so that a name holding keywords of two types gets the earlier
\* type; names holding no keyword are skipped, the first name holding one
\* decides, whatever the case of its letters, and a list with no such name
\* gives unknown.
C29_FirstKeywordGivesType ==
  NetworkReturned =>
    IF FirstHit(arg.names) = 0 THEN ret.value = "unknown"
    ELSE LET types == KeywordTypes(arg.names[FirstHit(arg.names)])
         IN ret.value = IF "wifi" \in types THEN "wifi"
                        ELSE IF "ethernet" \in types THEN "ethernet"
                        ELSE "cellular"

\* a name with no keyword is skipped and the next name, which holds a
\* keyword of ethernet and one of cellular, has given ethernet although a
\* name in capitals holding a keyword of wifi follows
C29_Witness ==
  /\ NetworkReturned
  /\ arg.names = <<Wi_Fi, WwanEth, WiFi>>
  /\ ret.value = "ethernet"

\* the call of executeSpeedTest has returned or thrown
OutputRead == ret # NoRet /\ ret.fn = "executeSpeedTest"

\* a member of the output, through the path of one or two keys, is missing
Missing(path) ==
  LET top == Get(arg.output.data, path[1])
  IN IF Len(path) = 1 THEN Nullish(top) ELSE Nullish(OptGet(top, path[2]))

CarriesToken(request) ==
  /\ Len(request.authorization) >= 2
  /\ request.authorization[1] = "Bearer"
  /\ request.authorization[2] = AUTH_TOKEN

\* C30: a request is served only if its peer is the host itself and it
\* carries the token; a request from another machine is answered 403
\* whatever its token, one from the host itself without the token 401, and
\* a request answered 401 or 403 runs no systemctl command and adds no row
\* to service_logs.
C30_OnlyLocalWithToken ==
  [][ret'.n = ret.n + 1
       => /\ ret'.status \notin {401, 403}
               => (arg'.peer \in LocalPeers /\ CarriesToken(arg'))
          /\ arg'.peer \notin LocalPeers => ret'.status = 403
          /\ (arg'.peer \in LocalPeers /\ ~CarriesToken(arg'))
               => ret'.status = 401
          /\ ret'.status \in {401, 403}
               => (ret'.runs = ret.runs /\ ret'.logs = ret.logs)]_vars

\* C31: in every state, a closed circuit has consecutiveFailures below
\* circuitBreakerThreshold and an open circuit has consecutiveFailures at or
\* above it.
C31_CircuitIffThreshold ==
  /\ ~isCircuitBroken
       => consecutiveFailures < config.circuitBreakerThreshold
  /\ isCircuitBroken
       => consecutiveFailures >= config.circuitBreakerThreshold

\* a cycle has failed below a threshold above 1 and the circuit is closed;
\* the loop is in the next cycle
C31_Witness ==
  /\ config.circuitBreakerThreshold > 1
  /\ consecutiveFailures = config.circuitBreakerThreshold - 1
  /\ ~isCircuitBroken
  /\ track.failedCycles = consecutiveFailures
  /\ pc = "exec"

\* C32: while the circuit stays open, consecutiveFailures and
\* circuitBreakerResetTime do not change; handleError never runs on an open
\* circuit, and consecutiveFailures never exceeds circuitBreakerThreshold.
C32_OpenCircuitFrozen ==
  /\ [][(isCircuitBroken /\ isCircuitBroken')
          => UNCHANGED <<consecutiveFailures, circuitBreakerResetTime>>]_vars
  /\ [][HandlerStep => ~isCircuitBroken]_vars
  /\ [](consecutiveFailures <= config.circuitBreakerThreshold)

\* C33: the calls of executeSpeedTest made since the last stored result or
\* clearing of the circuit (since the start, before the first of them) are
\* at most circuitBreakerThreshold * (maxRetries + 1), and every cycle makes
\* at most maxRetries + 1 of them.
C33_AttemptsBounded ==
  /\ track.execs
       <= config.circuitBreakerThreshold * (config.maxRetries + 1)
  /\ cycle.execs <= config.maxRetries + 1
  /\ pc \in {"exec", "sleep_backoff"} => cycle.execs <= track.execs

\* the last call allowed by the two limits is in flight, with a threshold
\* above 1
C33_Witness ==
  /\ config.circuitBreakerThreshold > 1
  /\ pc = "exec"
  /\ track.execs = config.circuitBreakerThreshold * (config.maxRetries + 1)
  /\ track.failedCycles = config.circuitBreakerThreshold - 1

\* the last probe cycle has failed and its run of handleError has left the
\* circuit closed
FailedCycleLeftClosed ==
  /\ cycle.handled = 1
  /\ cycle.cf0 + 1 < config.circuitBreakerThreshold

\* C34: a failed cycle leaves lastTestTime unchanged, and the loop
\* iteration that follows a failed cycle which left the circuit closed
\* calls executeSpeedTest in the same instant, without a sleep.
C34_FailedCyclesBackToBack ==
  /\ [][(pc \in {"exec", "sleep_backoff"} /\ pc' = "cleanup" /\ ~success')
          => lastTestTime' = lastTestTime]_vars
  /\ [][(pc = "loop" /\ pc' # pc /\ FailedCycleLeftClosed)
          => (pc' = "exec" /\ now' = now /\ cycle'.execs = 1)]_vars

\* no result has been stored since the start
NoSuccessYet == \A r \in rows : r \in StoredRows

\* C35: lastTestTime is 0 when the loop starts, so the first iteration of
\* the loop calls executeSpeedTest in the same instant, without an interval
\* sleep; a health query answered before the first stored result reports
\* lastTestTime 0, the epoch.
C35_FirstProbeAtOnce ==
  /\ [][(pc \in {"new", "ready"} /\ pc' = "loop") => lastTestTime' = 0]_vars
  /\ [][(pc = "loop" /\ pc' # pc /\ cycle.execs = 0)
          => (pc' = "exec" /\ now' = now /\ cycle'.execs = 1)]_vars
  /\ []((health # NoHealth /\ NoSuccessYet) => health.lastTestTime = 0)

\* the first call of executeSpeedTest is in flight at the time of the start
\* and a health query has been answered
C35_Witness ==
  /\ pc = "exec"
  /\ now = StartTime
  /\ track.execs = 1
  /\ health # NoHealth
  /\ health.lastTestTime = 0
  /\ NoSuccessYet

\* the step calls storeResult or cleanupOldResults on the store handle
StoreOpStep ==
  \/ cycle'.okExecs > cycle.okExecs
  \/ cycle'.inserts > cycle.inserts
  \/ cycle'.prunes > cycle.prunes
  \/ rows' # rows

\* C36: storeResult and cleanupOldResults are called only on a handle that
\* is open and has never been closed; once shutdown has closed the handle
\* the process has exited, whether the signal came during a call of
\* executeSpeedTest or during a sleep, and nothing runs after that.
C36_NoStoreOpAfterClose ==
  /\ [][StoreOpStep => (db = "open" /\ dbCloses = 0)]_vars
  /\ [](dbCloses > 0 => (db = "closed" /\ pc = "exited"))
  /\ [][pc = "exited" => UNCHANGED <<rows, cycle, pc>>]_vars

\* the signal came during a call of executeSpeedTest made after a result
\* had been stored: the handle is closed, the process has exited with the
\* subprocess still running
C36_Witness ==
  /\ pc = "exited"
  /\ db = "closed"
  /\ dbCloses = 1
  /\ inFlight = 1
  /\ Stamp(lastTestTime) \in rows

\* the order of the qualities: excellent > good > fair > poor
Rank(q) ==
  CASE q = "excellent" -> 3 [] q = "good" -> 2 [] q = "fair" -> 1
    [] OTHER -> 0

\* C37: raising one of ping, jitter and packet loss with the other two
\* fixed never gives a better quality, and a measurement rated excellent
\* meets the conditions of good and fair, one rated good those of fair.
C37_QualityMonotone ==
  QualityReturned =>
    LET p == arg.ping
        j == arg.jitter
        l == arg.packetLoss
    IN /\ \A p2 \in Pings :
            p2 >= p => Rank(DetermineConnectionQuality(p2, j, l))
                         <= Rank(ret.value)
       /\ \A j2 \in Jitters :
            j2 >= j => Rank(DetermineConnectionQuality(p, j2, l))
                         <= Rank(ret.value)
       /\ \A l2 \in Losses :
            l2 >= l => Rank(DetermineConnectionQuality(p, j, l2))
                         <= Rank(ret.value)
       /\ ret.value = "excellent" => (p < 50 /\ j < 15 /\ l < 10)
       /\ ret.value \in {"excellent", "good"}
            => (p < 100 /\ j < 30 /\ l < 25)

\* a measurement rated excellent whose jitter, raised to 30 ms, is rated poor
C37_Witness ==
  /\ QualityReturned
  /\ ret.value = "excellent"
  /\ arg.jitter = 4
  /\ DetermineConnectionQuality(arg.ping, 30, arg.packetLoss) = "poor"

\* the routes that act on the service
ActionRoutes == {"start", "stop", "restart"}

\* C38: a request adds a row to service_logs only if it is a start, stop or
\* restart whose systemctl command and whose reading of the status have
\* both succeeded; it then adds one row, with the name of the action and
\* the ActiveState read, after the two commands; a request whose systemctl
\* command fails is answered with an error and adds no row.
C38_LogRowAfterSuccess ==
  [][ret'.n = ret.n + 1
       => /\ ret'.logs # ret.logs
               => /\ arg'.route \in ActionRoutes
                  /\ ret'.outcome = "ok"
                  /\ ret'.status = 200
                  /\ ret'.runs = ret.runs \o <<arg'.route, "show">>
                  /\ ret'.logs = Append(ret.logs,
                                        [action |-> arg'.route,
                                         status |-> ret'.activeState])
          /\ (arg'.route \in ActionRoutes /\ ret'.status = 200)
               => Len(ret'.logs) = Len(ret.logs) + 1
          /\ ret'.outcome \in {"actionFails", "showFails"}
               => (ret'.status = 400 /\ ret'.logs = ret.logs)
          /\ ret'.outcome = "actionFails"
               => ret'.runs = ret.runs \o <<arg'.route>>]_vars

\* a restart that succeeded and a stop whose systemctl command failed: one
\* row, for the restart
C38_Witness ==
  /\ ret.n = 2
  /\ ret.runs = <<"restart", "show", "stop">>
  /\ ret.logs = <<[action |-> "restart", status |-> "active"]>>
  /\ ret.outcome = "actionFails"
  /\ ret.status = 400

====
